---- MODULE Spec2Model ----
(***************************************************************************)
(* Product REST API: router (validation chains), request handlers and the  *)
(* Product repository they call.  A request is received, its route's       *)
(* validation chains are evaluated, handleInputErrors either answers 400   *)
(* or passes control to the handler, and the handler runs one persistence  *)
(* call per step (it suspends at every await).                             *)
(***************************************************************************)
EXTENDS Integers, Sequences, FiniteSets, TLC

(***************************************************************************)
(* Bounds of the model.                                                    *)
(***************************************************************************)
\* number of records the store ever creates (ids 1..MaxId)
MaxId == 2

(***************************************************************************)
(* Untyped request values.  A text is a sequence of one-character strings, *)
(* so that the validators and the conversions work on its characters.      *)
(*   t = "undef"  the key is missing                                       *)
(*   t = "str"    text s                                                   *)
(*   t = "num"    integer n                                                *)
(*   t = "bool"   boolean b                                                *)
(* The value domain holds no fractional numbers.                           *)
(***************************************************************************)
Undef == [t |-> "undef", s |-> <<>>, n |-> 0, b |-> FALSE]
Str(x) == [t |-> "str", s |-> x, n |-> 0, b |-> FALSE]
Num(x) == [t |-> "num", s |-> <<>>, n |-> x, b |-> FALSE]
Bool(x) == [t |-> "bool", s |-> <<>>, n |-> 0, b |-> x]

DigitChars == <<"0", "1", "2", "3", "4", "5", "6", "7", "8", "9">>
IsDigit(c) == \E i \in 1..10 : DigitChars[i] = c
DigitVal(c) == (CHOOSE i \in 1..10 : DigitChars[i] = c) - 1
IsSign(c) == c \in {"+", "-"}

RECURSIVE NatToStr(_)
\* decimal digits of a natural number (String(n), n >= 0)
NatToStr(n) ==
  IF n < 10 THEN <<DigitChars[n + 1]>>
  ELSE NatToStr(n \div 10) \o <<DigitChars[(n % 10) + 1]>>

\* String(n) for an integer
IntToStr(n) == IF n < 0 THEN <<"-">> \o NatToStr(0 - n) ELSE NatToStr(n)

RECURSIVE DigitsToNat(_)
\* value of a non-empty sequence of digits
DigitsToNat(s) ==
  IF Len(s) = 0 THEN 0
  ELSE 10 * DigitsToNat(SubSeq(s, 1, Len(s) - 1)) + DigitVal(s[Len(s)])

AllDigits(s) == \A i \in 1..Len(s) : IsDigit(s[i])

\* the text with one leading sign removed
Unsigned(s) == IF Len(s) > 0 /\ IsSign(s[1]) THEN Tail(s) ELSE s

\* express-validator hands standard validators the value as a string:
\* undefined and null give "", everything else String(value)
toString(v) ==
  CASE v.t = "undef" -> <<>>
    [] v.t = "str" -> v.s
    [] v.t = "num" -> IntToStr(v.n)
    [] v.t = "bool" -> IF v.b THEN <<"t", "r", "u", "e">> ELSE <<"f", "a", "l", "s", "e">>

\* JavaScript Number(text): "" is 0, a signed run of digits its value, else NaN
StrToNumber(s) ==
  IF Len(s) = 0 THEN [nan |-> FALSE, n |-> 0]
  ELSE IF Len(Unsigned(s)) > 0 /\ AllDigits(Unsigned(s))
    THEN [nan |-> FALSE,
          n |-> IF s[1] = "-" THEN 0 - DigitsToNat(Unsigned(s)) ELSE DigitsToNat(Unsigned(s))]
    ELSE [nan |-> TRUE, n |-> 0]

\* JavaScript ToNumber, as the comparison value > 0 applies it
ToNumber(v) ==
  CASE v.t = "undef" -> [nan |-> TRUE, n |-> 0]
    [] v.t = "str" -> StrToNumber(v.s)
    [] v.t = "num" -> [nan |-> FALSE, n |-> v.n]
    [] v.t = "bool" -> [nan |-> FALSE, n |-> IF v.b THEN 1 ELSE 0]

(***************************************************************************)
(* Validators of the chains (validator.js, on the string form).            *)
(***************************************************************************)
\* isInt: /^(?:[-+]?(?:0|[1-9][0-9]*))$/
isInt(s) ==
  LET u == Unsigned(s) IN
    /\ Len(u) > 0
    /\ AllDigits(u)
    /\ (Len(u) > 1 => u[1] # "0")

\* isNumeric: /^[+-]?([0-9]*[.])?[0-9]+$/
isNumeric(s) ==
  LET u == Unsigned(s) IN
    \/ Len(u) > 0 /\ AllDigits(u)
    \/ \E k \in 1..Len(u) :
         /\ u[k] = "."
         /\ AllDigits(SubSeq(u, 1, k - 1))
         /\ k < Len(u)
         /\ AllDigits(SubSeq(u, k + 1, Len(u)))

\* notEmpty: the string form has at least one character
notEmpty(s) == Len(s) > 0

\* isBoolean: one of "true", "false", "1", "0"
isBoolean(s) ==
  s \in {<<"t", "r", "u", "e">>, <<"f", "a", "l", "s", "e">>, <<"1">>, <<"0">>}

\* variant of the custom validator: (value) => value >= 0
greaterThanZero_orEqual(v) == ~ToNumber(v).nan /\ ToNumber(v).n >= 0

\* the custom validator of price: (value) => value > 0, on the raw value
greaterThanZero(v) == ~ToNumber(v).nan /\ ToNumber(v).n > 0

(***************************************************************************)
(* Requests.                                                               *)
(***************************************************************************)
Procs == {1, 2}

T_a == <<"a">>
T_b == <<"b">>
T_hola == <<"h", "o", "l", "a">>
T_no == <<"n", "o">>

EmptyBody == [name |-> Undef, price |-> Undef, availability |-> Undef, id |-> Undef]

BodyNames == {Undef, Str(<<>>), Str(T_a), Str(T_b)}
BodyPrices ==
  {Undef, Num(0), Num(0 - 3), Num(5), Str(T_hola), Str(<<"7">>), Str(<<>>), Bool(TRUE)}
BodyAvails == {Undef, Bool(TRUE), Bool(FALSE), Str(T_no)}

\* bodies without an id key, and the bodies that also carry an id key
PlainBodies ==
  [name : BodyNames, price : BodyPrices, availability : BodyAvails, id : {Undef}]
IdBodies ==
  [name : {Str(T_a)}, price : {Num(5), Num(0)}, availability : {Undef, Bool(FALSE)},
   id : {Num(1), Num(2)}]
Bodies == PlainBodies \cup IdBodies

\* the :id path parameter is always a text
IdParams == {<<"1">>, <<"2">>, <<"1", ".", "5">>, <<"x">>}

\* a create whose availability the store cannot convert to a boolean is
\* rejected by the store with an error the handler does not catch; such
\* bodies are not sent to POST
PostBodies == {b \in Bodies : b.availability.t \in {"undef", "bool"}}

Request(route, id, body) == [route |-> route, id |-> id, body |-> body]

GetAllRequests == {Request("getAll", <<>>, EmptyBody)}
GetByIdRequests == {Request("getById", i, EmptyBody) : i \in IdParams}
PostRequests == {Request("post", <<>>, b) : b \in PostBodies}
PutRequests == {Request("put", i, b) : i \in IdParams, b \in Bodies}
PatchRequests ==
  {Request("patch", i, b) : i \in IdParams,
     b \in {EmptyBody,
            [name |-> Str(T_b), price |-> Num(0), availability |-> Bool(TRUE), id |-> Num(2)]}}
DeleteRequests == {Request("delete", i, EmptyBody) : i \in IdParams}

AllRequests ==
  GetAllRequests \cup GetByIdRequests \cup PostRequests \cup PutRequests
    \cup PatchRequests \cup DeleteRequests

NoRequest == Request("none", <<>>, EmptyBody)

(***************************************************************************)
(* Validation chains of the routes (router.ts).  Every validator of a      *)
(* chain runs, and each one that fails adds its own entry, in chain order. *)
(***************************************************************************)
Err(path, msg) == [path |-> path, msg |-> msg]
When(failed, e) == IF failed THEN <<e>> ELSE <<>>

\* variant of the id chain: param("id").isNumeric()
idChain_isNumeric(r) == When(~isNumeric(r.id), Err("id", "ID no valido"))

\* param("id").isInt().withMessage("ID no valido")
idChain(r) == When(~isInt(r.id), Err("id", "ID no valido"))

\* body("name").notEmpty().withMessage(...)
nameChain(r) ==
  When(~notEmpty(toString(r.body.name)),
       Err("name", "El nombre del producto no puede ir vacio"))

\* variant of the price chain: it stops at its first failed validator (.bail())
priceChain_bail(r) ==
  IF ~isNumeric(toString(r.body.price))
    THEN <<Err("price", "Valor no valido")>>
  ELSE IF ~notEmpty(toString(r.body.price))
    THEN <<Err("price", "El nombre del producto no puede ir vacio")>>
  ELSE When(~greaterThanZero(r.body.price), Err("price", "Precio no valido"))

\* body("price").isNumeric()...notEmpty()...custom((value) => value > 0)...
priceChain(r) ==
  When(~isNumeric(toString(r.body.price)), Err("price", "Valor no valido"))
    \o When(~notEmpty(toString(r.body.price)),
            Err("price", "El nombre del producto no puede ir vacio"))
    \o When(~greaterThanZero(r.body.price), Err("price", "Precio no valido"))

\* body("availability").isBoolean().withMessage(...)
availabilityChain(r) ==
  When(~isBoolean(toString(r.body.availability)),
       Err("availability", "El campo no puede ir vacio"))

getByIdRules(r) == idChain(r)
postRules(r) == nameChain(r) \o priceChain(r)
\* variant of the PUT route: no chain for availability
putRules_noAvailability(r) == idChain(r) \o nameChain(r) \o priceChain(r)
putRules(r) == idChain(r) \o nameChain(r) \o priceChain(r) \o availabilityChain(r)
patchRules(r) == idChain(r)
deleteRules(r) == idChain(r)

(***************************************************************************)
(* Product repository: the table and the operations of a Product instance. *)
(***************************************************************************)
Row(name, price, availability) ==
  [name |-> name, price |-> price, availability |-> availability]
Product(id, row) ==
  [id |-> id, name |-> row.name, price |-> row.price, availability |-> row.availability]
NoProduct == [id |-> 0, name |-> <<>>, price |-> 0, availability |-> FALSE]
NoInstance == [found |-> FALSE, data |-> NoProduct, changed |-> {}]

Fields == {"name", "price", "availability"}

\* column conversions of the table: text, number, boolean
toBoolean(v) == toString(v) \in {<<"t", "r", "u", "e">>, <<"1">>}
Column(f, v) ==
  CASE f = "name" -> toString(v)
    [] f = "price" -> ToNumber(v).n
    [] f = "availability" -> toBoolean(v)

\* findAll({order: [["id", "DESC"]]}): every record, largest id first
RECURSIVE Descending(_, _)
Descending(st, ids) ==
  IF ids = {} THEN <<>>
  ELSE LET m == CHOOSE i \in ids : \A j \in ids : j <= i
       IN <<Product(m, st[m])>> \o Descending(st, ids \ {m})
findAll(st) == Descending(st, DOMAIN st)

\* findByPk(id): the record whose key the text denotes, or none
findByPk(st, id) ==
  LET k == StrToNumber(id).n IN
    IF k \in DOMAIN st
      THEN [found |-> TRUE, data |-> Product(k, st[k]), changed |-> {}]
      ELSE NoInstance

\* create(fields): a new record under the next id of the sequence;
\* availability defaults to true when unspecified
create(st, id, values) ==
  LET row == Row(Column("name", values.name), Column("price", values.price),
                 IF values.availability.t = "undef" THEN TRUE
                 ELSE Column("availability", values.availability))
  IN [i \in DOMAIN st \cup {id} |-> IF i = id THEN row ELSE st[i]]

\* instance.set(values): name, price and availability are taken from the
\* keys that are present; a field whose value differs becomes changed
PresentKeys(values) == {f \in Fields : values[f].t # "undef"}
set(in, values) ==
  LET keys == PresentKeys(values)
      data == [id |-> in.data.id,
               name |-> IF "name" \in keys THEN Column("name", values.name)
                        ELSE in.data.name,
               price |-> IF "price" \in keys THEN Column("price", values.price)
                         ELSE in.data.price,
               availability |-> IF "availability" \in keys
                                THEN Column("availability", values.availability)
                                ELSE in.data.availability]
  IN [in EXCEPT !.data = data,
                !.changed = in.changed \cup {f \in keys : data[f] # in.data[f]}]

\* one record-level write of the given fields of the instance; it changes
\* nothing when the record is gone
write(st, in, fs) ==
  IF in.data.id \in DOMAIN st
    THEN LET old == st[in.data.id] IN
      [st EXCEPT ![in.data.id] =
         Row(IF "name" \in fs THEN in.data.name ELSE old.name,
             IF "price" \in fs THEN in.data.price ELSE old.price,
             IF "availability" \in fs THEN in.data.availability ELSE old.availability)]
    ELSE st

\* instance.update(values): set, then persist the given fields if any changed
updateFields(in, values) ==
  IF set(in, values).changed = {} THEN {} ELSE PresentKeys(values)

\* instance.save(): persist the changed fields
saveFields(in) == in.changed

\* instance.destroy(): remove the record
destroy(st, in) == [i \in DOMAIN st \ {in.data.id} |-> st[i]]

(***************************************************************************)
(* State.                                                                  *)
(***************************************************************************)
VARIABLES
  store,      \* the products table: id -> row, for the ids that exist
  nextId,     \* next value of the table's id sequence
  pc,         \* per request slot: idle, handler, found, updated, done
  req,        \* per slot: the request being served
  inst,       \* per slot: the Product instance the handler holds
  resp,       \* per slot: the response sent
  calls,      \* per slot: the repository calls the request has made
  snap,       \* per slot: the table as it was when the request arrived
  deleted,    \* ids whose DELETE was answered 200
  lastPatch,  \* the PATCH answered 200 by the latest completed request, if any
  lastWrite   \* the slot and id of the latest write applied to the table by a
              \* request that has not yet left its slot

vars ==
  <<store, nextId, pc, req, inst, resp, calls, snap, deleted, lastPatch, lastWrite>>

EmptyStore == [i \in {} |-> Row(<<>>, 0, FALSE)]
NoResponse ==
  [status |-> 0, key |-> "none", product |-> NoProduct, list |-> <<>>,
   text |-> "", errors |-> <<>>]
NoPatch == [id |-> 0, before |-> Row(<<>>, 0, FALSE)]
NoWrite == [p |-> 0, id |-> 0]
\* the write of fields fs of the instance by slot p, if it changes the table
Written(p, in, fs) ==
  IF fs # {} /\ in.data.id \in DOMAIN store THEN [p |-> p, id |-> in.data.id] ELSE lastWrite

\* res.status(400).json({errors: [...]})
Errors(es) == [NoResponse EXCEPT !.status = 400, !.key = "errors", !.errors = es]
\* res.status(404).json({error: "Producto no encontrado"})
NotFound ==
  [NoResponse EXCEPT !.status = 404, !.key = "error", !.text = "Producto no encontrado"]
\* res.status(code).json({data: product})
Data(code, product) ==
  [NoResponse EXCEPT !.status = code, !.key = "data", !.product = product]
\* res.json({data: products})
DataList(products) ==
  [NoResponse EXCEPT !.status = 200, !.key = "data", !.list = products]
\* res.json({data: "Producto Eliminado"})
DataText(text) == [NoResponse EXCEPT !.status = 200, !.key = "data", !.text = text]

Init ==
  /\ store = EmptyStore
  /\ nextId = 1
  /\ pc = [p \in Procs |-> "idle"]
  /\ req = [p \in Procs |-> NoRequest]
  /\ inst = [p \in Procs |-> NoInstance]
  /\ resp = [p \in Procs |-> NoResponse]
  /\ calls = [p \in Procs |-> <<>>]
  /\ snap = [p \in Procs |-> EmptyStore]
  /\ deleted = {}
  /\ lastPatch = NoPatch
  /\ lastWrite = NoWrite

(***************************************************************************)
(* Router: a request arrives at a free slot, the chains of its route are   *)
(* evaluated and handleInputErrors decides.                                *)
(***************************************************************************)
\* handleInputErrors: with any validation error the response is 400 with
\* the errors and the handler is not called; otherwise next()
handleInputErrors(p, errs) ==
  IF errs # <<>>
    THEN /\ resp' = [resp EXCEPT ![p] = Errors(errs)]
         /\ pc' = [pc EXCEPT ![p] = "done"]
    ELSE /\ resp' = [resp EXCEPT ![p] = NoResponse]
         /\ pc' = [pc EXCEPT ![p] = "handler"]

Arrive(p, r) ==
  /\ pc[p] = "idle"
  /\ req' = [req EXCEPT ![p] = r]
  /\ snap' = [snap EXCEPT ![p] = store]
  /\ inst' = [inst EXCEPT ![p] = NoInstance]
  /\ calls' = [calls EXCEPT ![p] = <<>>]
  /\ UNCHANGED <<store, nextId, deleted, lastPatch, lastWrite>>

\* the sequence has an id left for every create in flight and one more
RoomToCreate ==
  nextId + Cardinality({q \in Procs : pc[q] = "handler" /\ req[q].route = "post"}) <= MaxId

\* router.get("/", getProducts)
routeGetAll(p, rs) ==
  \E r \in rs \cap GetAllRequests :
    /\ Arrive(p, r)
    /\ resp' = [resp EXCEPT ![p] = NoResponse]
    /\ pc' = [pc EXCEPT ![p] = "handler"]

\* router.get("/:id", param("id")..., handleInputErrors, getProductById)
routeGetById(p, rs) ==
  \E r \in rs \cap GetByIdRequests :
    Arrive(p, r) /\ handleInputErrors(p, getByIdRules(r))

\* router.post("/", body("name")..., body("price")..., handleInputErrors, createProduct)
routePost(p, rs) ==
  \E r \in rs \cap PostRequests :
    /\ postRules(r) # <<>> \/ RoomToCreate
    /\ Arrive(p, r)
    /\ handleInputErrors(p, postRules(r))

\* router.put("/:id", param("id")..., body(...)..., handleInputErrors, updateProduct)
routePut(p, rs) ==
  \E r \in rs \cap PutRequests :
    Arrive(p, r) /\ handleInputErrors(p, putRules(r))

\* router.patch("/:id", param("id")..., handleInputErrors, updateAvailability)
routePatch(p, rs) ==
  \E r \in rs \cap PatchRequests :
    Arrive(p, r) /\ handleInputErrors(p, patchRules(r))

\* router.delete("/:id", param("id")..., handleInputErrors, deleteProduct)
routeDelete(p, rs) ==
  \E r \in rs \cap DeleteRequests :
    Arrive(p, r) /\ handleInputErrors(p, deleteRules(r))

(***************************************************************************)
(* Handlers: one action per persistence call; the code after an await runs *)
(* with the next call (or with the response).                              *)
(***************************************************************************)
At(p, route, at) == pc[p] = at /\ req[p].route = route
Called(p, op) == calls' = [calls EXCEPT ![p] = Append(@, op)]
Respond(p, r) ==
  /\ resp' = [resp EXCEPT ![p] = r]
  /\ pc' = [pc EXCEPT ![p] = "done"]

\* if (!product): the lookup found no record
missing_never(product) == FALSE
missing(product) == ~product.found

\* the argument of product.update(...): req.body
updateValues_noAvailability(r) == [r.body EXCEPT !.availability = Undef]
updateValues(r) == r.body

getProducts(p) ==
  /\ At(p, "getAll", "handler")
  /\ Called(p, "findAll")
  /\ Respond(p, DataList(findAll(store)))
  /\ UNCHANGED <<store, nextId, req, inst, snap, deleted, lastPatch, lastWrite>>

getProductById(p) ==
  /\ At(p, "getById", "handler")
  /\ Called(p, "findByPk")
  /\ LET product == findByPk(store, req[p].id) IN
       /\ inst' = [inst EXCEPT ![p] = product]
       /\ Respond(p, IF missing(product) THEN NotFound ELSE Data(200, product.data))
  /\ UNCHANGED <<store, nextId, req, snap, deleted, lastPatch, lastWrite>>

\* variant of createProduct: the record is created under the id the body
\* carries, when it carries one
createProduct_bodyId(p) ==
  LET id == IF req[p].body.id.t = "num" THEN req[p].body.id.n ELSE nextId IN
    /\ At(p, "post", "handler")
    /\ Called(p, "create")
    /\ store' = create(store, id, req[p].body)
    /\ nextId' = nextId + 1
    /\ inst' = [inst EXCEPT ![p] =
                  [found |-> TRUE, data |-> Product(id, store'[id]), changed |-> {}]]
    /\ Respond(p, Data(201, Product(id, store'[id])))
    /\ lastWrite' = [p |-> p, id |-> id]
    /\ UNCHANGED <<req, snap, deleted, lastPatch>>

createProduct(p) ==
  /\ At(p, "post", "handler")
  /\ Called(p, "create")
  /\ store' = create(store, nextId, req[p].body)
  /\ nextId' = nextId + 1
  /\ inst' = [inst EXCEPT ![p] =
                [found |-> TRUE, data |-> Product(nextId, store'[nextId]), changed |-> {}]]
  /\ Respond(p, Data(201, Product(nextId, store'[nextId])))
  /\ lastWrite' = [p |-> p, id |-> nextId]
  /\ UNCHANGED <<req, snap, deleted, lastPatch>>

\* const product = await Product.findByPk(id), in the three handlers that
\* go on to change the record
lookup(p, route) ==
  /\ At(p, route, "handler")
  /\ Called(p, "findByPk")
  /\ inst' = [inst EXCEPT ![p] = findByPk(store, req[p].id)]
  /\ pc' = [pc EXCEPT ![p] = "found"]
  /\ UNCHANGED <<store, nextId, req, resp, snap, deleted, lastPatch, lastWrite>>

updateProduct_findByPk(p) == lookup(p, "put")

\* variant of updateProduct: the fields are assigned to the instance and
\* only save() persists, so only the fields that changed are written
updateProduct_update_assign(p) ==
  /\ At(p, "put", "found")
  /\ IF missing(inst[p])
       THEN /\ Respond(p, NotFound)
            /\ UNCHANGED <<store, inst, calls, lastWrite>>
       ELSE LET product == set(inst[p], updateValues(req[p])) IN
            /\ Called(p, "save")
            /\ store' = write(store, product, saveFields(product))
            /\ lastWrite' = Written(p, product, saveFields(product))
            /\ inst' = [inst EXCEPT ![p] = [product EXCEPT !.changed = {}]]
            /\ pc' = [pc EXCEPT ![p] = "updated"]
            /\ UNCHANGED resp
  /\ UNCHANGED <<nextId, req, snap, deleted, lastPatch>>

\* if (!product) return 404; await product.update(req.body)
updateProduct_update(p) ==
  /\ At(p, "put", "found")
  /\ IF missing(inst[p])
       THEN /\ Respond(p, NotFound)
            /\ UNCHANGED <<store, inst, calls, lastWrite>>
       ELSE LET product == set(inst[p], updateValues(req[p])) IN
            /\ Called(p, "update")
            /\ store' = write(store, product, updateFields(inst[p], updateValues(req[p])))
            /\ lastWrite' = Written(p, product, updateFields(inst[p], updateValues(req[p])))
            /\ inst' = [inst EXCEPT ![p] = [product EXCEPT !.changed = {}]]
            /\ pc' = [pc EXCEPT ![p] = "updated"]
            /\ UNCHANGED resp
  /\ UNCHANGED <<nextId, req, snap, deleted, lastPatch>>

\* await product.save(); res.json({data: product})
updateProduct_save(p) ==
  /\ At(p, "put", "updated")
  /\ Called(p, "save")
  /\ store' = write(store, inst[p], saveFields(inst[p]))
  /\ lastWrite' = Written(p, inst[p], saveFields(inst[p]))
  /\ inst' = [inst EXCEPT ![p].changed = {}]
  /\ Respond(p, Data(200, inst[p].data))
  /\ UNCHANGED <<nextId, req, snap, deleted, lastPatch>>

updateAvailability_findByPk(p) == lookup(p, "patch")

\* variant of updateAvailability: the toggled instance is written with an
\* upsert, which inserts the row when the record is gone
updateAvailability_upsert(p) ==
  /\ At(p, "patch", "found")
  /\ IF missing(inst[p])
       THEN /\ Respond(p, NotFound)
            /\ UNCHANGED <<store, inst, calls, lastWrite>>
       ELSE LET product == [inst[p] EXCEPT
                              !.data.availability = ~inst[p].data.availability,
                              !.changed = @ \cup {"availability"}]
                row == Row(product.data.name, product.data.price,
                           product.data.availability)
            IN /\ Called(p, "save")
               /\ store' = [i \in DOMAIN store \cup {product.data.id} |->
                              IF i = product.data.id THEN row ELSE store[i]]
               /\ lastWrite' = [p |-> p, id |-> product.data.id]
               /\ inst' = [inst EXCEPT ![p] = [product EXCEPT !.changed = {}]]
               /\ Respond(p, Data(200, product.data))
  /\ UNCHANGED <<nextId, req, snap, deleted, lastPatch>>

\* variant of updateAvailability: product.availability = false
updateAvailability_setFalse(p) ==
  /\ At(p, "patch", "found")
  /\ IF missing(inst[p])
       THEN /\ Respond(p, NotFound)
            /\ UNCHANGED <<store, inst, calls, lastWrite>>
       ELSE LET product == [inst[p] EXCEPT
                              !.data.availability = FALSE,
                              !.changed = IF inst[p].data.availability
                                          THEN @ \cup {"availability"} ELSE @]
            IN /\ Called(p, "save")
               /\ store' = write(store, product, saveFields(product))
               /\ lastWrite' = Written(p, product, saveFields(product))
               /\ inst' = [inst EXCEPT ![p] = [product EXCEPT !.changed = {}]]
               /\ Respond(p, Data(200, product.data))
  /\ UNCHANGED <<nextId, req, snap, deleted, lastPatch>>

\* if (!product) return 404;
\* product.availability = !product.dataValues.availability; await product.save()
updateAvailability_save(p) ==
  /\ At(p, "patch", "found")
  /\ IF missing(inst[p])
       THEN /\ Respond(p, NotFound)
            /\ UNCHANGED <<store, inst, calls, lastWrite>>
       ELSE LET product == [inst[p] EXCEPT
                              !.data.availability = ~inst[p].data.availability,
                              !.changed = @ \cup {"availability"}]
            IN /\ Called(p, "save")
               /\ store' = write(store, product, saveFields(product))
               /\ lastWrite' = Written(p, product, saveFields(product))
               /\ inst' = [inst EXCEPT ![p] = [product EXCEPT !.changed = {}]]
               /\ Respond(p, Data(200, product.data))
  /\ UNCHANGED <<nextId, req, snap, deleted, lastPatch>>

deleteProduct_findByPk(p) == lookup(p, "delete")

\* variant of deleteProduct: the record is answered as deleted and kept
deleteProduct_keep(p) ==
  /\ At(p, "delete", "found")
  /\ IF missing(inst[p])
       THEN /\ Respond(p, NotFound)
            /\ UNCHANGED <<calls, deleted>>
       ELSE /\ Called(p, "destroy")
            /\ deleted' = deleted \cup {inst[p].data.id}
            /\ Respond(p, DataText("Producto Eliminado"))
  /\ UNCHANGED <<store, nextId, req, inst, snap, lastPatch, lastWrite>>

\* if (!product) return 404; await product.destroy(); res.json({data: "Producto Eliminado"})
deleteProduct_destroy(p) ==
  /\ At(p, "delete", "found")
  /\ IF missing(inst[p])
       THEN /\ Respond(p, NotFound)
            /\ UNCHANGED <<store, calls, deleted, lastWrite>>
       ELSE /\ Called(p, "destroy")
            /\ store' = destroy(store, inst[p])
            /\ lastWrite' = Written(p, inst[p], Fields)
            /\ deleted' = deleted \cup {inst[p].data.id}
            /\ Respond(p, DataText("Producto Eliminado"))
  /\ UNCHANGED <<nextId, req, inst, snap, lastPatch>>

\* the response has been sent: the slot is free again
Finish(p) ==
  /\ pc[p] = "done"
  /\ lastPatch' =
       IF req[p].route = "patch" /\ resp[p].status = 200
         /\ resp[p].product.id \in DOMAIN snap[p]
         THEN [id |-> resp[p].product.id, before |-> snap[p][resp[p].product.id]]
         ELSE NoPatch
  /\ pc' = [pc EXCEPT ![p] = "idle"]
  /\ req' = [req EXCEPT ![p] = NoRequest]
  /\ inst' = [inst EXCEPT ![p] = NoInstance]
  /\ resp' = [resp EXCEPT ![p] = NoResponse]
  /\ calls' = [calls EXCEPT ![p] = <<>>]
  /\ snap' = [snap EXCEPT ![p] = EmptyStore]
  /\ lastWrite' = IF lastWrite.p = p THEN NoWrite ELSE lastWrite
  /\ UNCHANGED <<store, nextId, deleted>>

(***************************************************************************)
(* Specifications.                                                         *)
(***************************************************************************)
AllIdle == \A q \in Procs : pc[q] = "idle"

\* requests served one after the other
Next ==
  \/ AllIdle /\ routeGetAll(1, AllRequests)
  \/ AllIdle /\ routeGetById(1, AllRequests)
  \/ AllIdle /\ routePost(1, AllRequests)
  \/ AllIdle /\ routePut(1, AllRequests)
  \/ AllIdle /\ routePatch(1, AllRequests)
  \/ AllIdle /\ routeDelete(1, AllRequests)
  \/ getProducts(1)
  \/ getProductById(1)
  \/ createProduct(1)
  \/ updateProduct_findByPk(1)
  \/ updateProduct_update(1)
  \/ updateProduct_save(1)
  \/ updateAvailability_findByPk(1)
  \/ updateAvailability_save(1)
  \/ deleteProduct_findByPk(1)
  \/ deleteProduct_destroy(1)
  \/ Finish(1)

Spec == Init /\ [][Next]_vars

\* requests served concurrently, two at a time, on record 1: each handler
\* may be suspended at any of its persistence calls while the other one runs.
\* The run starts from a table the sequential runs reach: ids 1..MaxId were
\* created and all but record 1 deleted again.
ValidPut(i, n, pr, a) ==
  Request("put", i, [name |-> Str(n), price |-> pr, availability |-> Bool(a), id |-> Undef])
ConcRequests ==
  {ValidPut(<<"1">>, T_b, Num(5), TRUE),
   ValidPut(<<"1">>, T_a, Str(<<"7">>), TRUE),
   ValidPut(<<"1">>, T_b, Str(<<"7">>), FALSE),
   Request("put", <<"1">>, EmptyBody),
   Request("patch", <<"1">>, EmptyBody),
   Request("delete", <<"1">>, EmptyBody),
   Request("getById", <<"1">>, EmptyBody),
   Request("getById", <<"x">>, EmptyBody)}

InitConc ==
  /\ store = [i \in {1} |-> Row(T_a, 5, TRUE)]
  /\ nextId = MaxId + 1
  /\ pc = [p \in Procs |-> "idle"]
  /\ req = [p \in Procs |-> NoRequest]
  /\ inst = [p \in Procs |-> NoInstance]
  /\ resp = [p \in Procs |-> NoResponse]
  /\ calls = [p \in Procs |-> <<>>]
  /\ snap = [p \in Procs |-> EmptyStore]
  /\ deleted = 2..MaxId
  /\ lastPatch = NoPatch
  /\ lastWrite = NoWrite

Serve(p) ==
  \/ routeGetById(p, ConcRequests)
  \/ routePut(p, ConcRequests)
  \/ routePatch(p, ConcRequests)
  \/ routeDelete(p, ConcRequests)
  \/ getProductById(p)
  \/ updateProduct_findByPk(p)
  \/ updateProduct_update(p)
  \/ updateProduct_save(p)
  \/ updateAvailability_findByPk(p)
  \/ updateAvailability_save(p)
  \/ deleteProduct_findByPk(p)
  \/ deleteProduct_destroy(p)
  \/ Finish(p)

NextConc == \E p \in Procs : Serve(p)

SpecConc == InitConc /\ [][NextConc]_vars

(***************************************************************************)
(* Vocabulary of the properties, stated on the request as sent.            *)
(***************************************************************************)
\* the :id text is the decimal form of an integer
IntegerId(r) ==
  \E k \in 0..20 : r.id \in {IntToStr(k), IntToStr(0 - k), <<"+">> \o IntToStr(k)}
\* the record the :id text names
IdOf(r) == StrToNumber(r.id).n
HasId(r) == r.route \in {"getById", "put", "patch", "delete"}

NameOk(b) == b.name.t = "str" /\ b.name.s # <<>>
PositivePrice(v) == \E k \in 1..9 : v = Num(k) \/ v = Str(IntToStr(k))
PriceOk(b) == PositivePrice(b.price)
AvailabilityOk(b) == b.availability.t = "bool"
ValidPutBody(b) == NameOk(b) /\ PriceOk(b) /\ AvailabilityOk(b)
ValidPostBody(b) == NameOk(b) /\ PriceOk(b)

\* the row a valid PUT body describes
PriceValue(v) == CHOOSE k \in 1..9 : v = Num(k) \/ v = Str(IntToStr(k))
RowOf(b) == Row(b.name.s, PriceValue(b.price), b.availability.b)

Served(p) == pc[p] = "done"
NoData(r) == r.product = NoProduct /\ r.list = <<>>
\* the table differs from the one the request found at most in record k
OnlyRecordChanged(p, k) ==
  /\ DOMAIN store \ {k} = DOMAIN snap[p] \ {k}
  /\ \A j \in DOMAIN store \ {k} : store[j] = snap[p][j]

(***************************************************************************)
(* C1: a request on /:id whose id is not an integer, and a POST or PUT     *)
(* whose body violates a rule, is answered 400 with a non-empty errors     *)
(* list; the handler is never invoked, the request makes no repository     *)
(* call and the table is as the request found it.  A non-integer id gives  *)
(* 400, never 404, whatever the table holds.                               *)
(***************************************************************************)
Rejectable(r) ==
  \/ HasId(r) /\ ~IntegerId(r)
  \/ r.route = "post" /\ ~ValidPostBody(r.body)
  \/ r.route = "put" /\ ~ValidPutBody(r.body)

C1_InvalidRequestRejected ==
  \A p \in Procs :
    (pc[p] # "idle" /\ Rejectable(req[p])) =>
      /\ Served(p)
      /\ resp[p].status = 400
      /\ resp[p].key = "errors"
      /\ resp[p].errors # <<>>
      /\ NoData(resp[p]) /\ resp[p].text = ""
      /\ calls[p] = <<>>
      /\ inst[p] = NoInstance
      /\ store = snap[p]

\* a PUT with a valid body and a non-integer id that is numeric, rejected
\* while the table holds records
C1_Witness ==
  /\ Served(1)
  /\ req[1].route = "put"
  /\ req[1].id = <<"1", ".", "5">>
  /\ ValidPutBody(req[1].body)
  /\ resp[1].status = 400
  /\ Len(resp[1].errors) = 1
  /\ 1 \in DOMAIN store

(***************************************************************************)
(* C2: every Product in the table has a price strictly greater than zero.  *)
(***************************************************************************)
C2_PricePositive == \A i \in DOMAIN store : store[i].price > 0

\* a record whose price was replaced by a PUT that sent it as text, after
\* another record was deleted
C2_Witness ==
  /\ Served(1)
  /\ req[1].route = "put"
  /\ req[1].body.price = Str(<<"7">>)
  /\ resp[1].status = 200
  /\ IdOf(req[1]) \in DOMAIN store
  /\ store[IdOf(req[1])].price = 7
  /\ snap[1][IdOf(req[1])].price = 5
  /\ deleted # {}

(***************************************************************************)
(* C3: DELETE /:id on an existing record answers 200 with the literal text *)
(* as data, not the entity, and removes the record and no other; a GET of  *)
(* that id served after the DELETE was answered gets 404.                  *)
(***************************************************************************)
C3_DeleteRemoves ==
  \A p \in Procs :
    /\ (Served(p) /\ req[p].route = "delete" /\ IntegerId(req[p])
          /\ IdOf(req[p]) \in DOMAIN snap[p]) =>
         /\ resp[p].status = 200
         /\ resp[p].key = "data"
         /\ resp[p].text = "Producto Eliminado"
         /\ NoData(resp[p])
         /\ IdOf(req[p]) \notin DOMAIN store
         /\ OnlyRecordChanged(p, IdOf(req[p]))
    /\ (Served(p) /\ req[p].route = "getById" /\ IdOf(req[p]) \in deleted) =>
         /\ resp[p].status = 404
         /\ resp[p].key = "error"

\* a GET of a deleted id answered 404 while another record is in the table
C3_Witness ==
  /\ Served(1)
  /\ req[1].route = "getById"
  /\ IdOf(req[1]) \in deleted
  /\ resp[1].status = 404
  /\ store # EmptyStore

(***************************************************************************)
(* C4: PATCH /:id on an existing record, whatever the body, negates the    *)
(* stored availability, changes no other field of the record and no other  *)
(* record, and returns the new value in data.availability; a second PATCH  *)
(* of the same id served right after the first leaves the record as it was *)
(* before the first.                                                       *)
(***************************************************************************)
C4_PatchTogglesAvailability ==
  \A p \in Procs :
    (Served(p) /\ req[p].route = "patch" /\ IntegerId(req[p])
       /\ IdOf(req[p]) \in DOMAIN snap[p]) =>
      LET k == IdOf(req[p]) IN
        /\ resp[p].status = 200
        /\ resp[p].key = "data"
        /\ k \in DOMAIN store
        /\ store[k] = [snap[p][k] EXCEPT !.availability = ~snap[p][k].availability]
        /\ OnlyRecordChanged(p, k)
        /\ resp[p].product = Product(k, store[k])
        /\ resp[p].product.availability = ~snap[p][k].availability
        /\ (lastPatch.id = k => store[k] = lastPatch.before)

\* the second of two PATCHes in a row, sent with a body, on an unavailable
\* record, while a second record is in the table
C4_Witness ==
  /\ Served(1)
  /\ req[1].route = "patch"
  /\ req[1].body # EmptyBody
  /\ resp[1].status = 200
  /\ lastPatch.id = IdOf(req[1])
  /\ resp[1].product.availability = FALSE
  /\ Cardinality(DOMAIN store) = 2

(***************************************************************************)
(* C5: GET, PUT with a valid body, PATCH and DELETE on an integer id with  *)
(* no matching record answer 404 with a single error message and no data,  *)
(* and leave the table as it was.                                          *)
(***************************************************************************)
C5_NotFound ==
  \A p \in Procs :
    (Served(p) /\ HasId(req[p]) /\ IntegerId(req[p])
       /\ IdOf(req[p]) \notin DOMAIN snap[p]
       /\ (req[p].route = "put" => ValidPutBody(req[p].body))) =>
      /\ resp[p].status = 404
      /\ resp[p].key = "error"
      /\ resp[p].text = "Producto no encontrado"
      /\ resp[p].errors = <<>>
      /\ NoData(resp[p])
      /\ store = snap[p]

\* a valid PUT on the id of a deleted record, answered 404 while another
\* record is in the table
C5_Witness ==
  /\ Served(1)
  /\ req[1].route = "put"
  /\ ValidPutBody(req[1].body)
  /\ IdOf(req[1]) \in deleted
  /\ resp[1].status = 404
  /\ store # EmptyStore

(***************************************************************************)
(* C6: PUT /:id on an existing record with a valid body answers 200 with   *)
(* data and leaves the record with the name, price and availability of the *)
(* body and its id; every other record is unchanged.                       *)
(***************************************************************************)
C6_PutReplaces ==
  \A p \in Procs :
    (Served(p) /\ req[p].route = "put" /\ IntegerId(req[p])
       /\ IdOf(req[p]) \in DOMAIN snap[p] /\ ValidPutBody(req[p].body)) =>
      LET k == IdOf(req[p]) IN
        /\ resp[p].status = 200
        /\ resp[p].key = "data"
        /\ k \in DOMAIN store
        /\ store[k] = RowOf(req[p].body)
        /\ resp[p].product = Product(k, RowOf(req[p].body))
        /\ OnlyRecordChanged(p, k)

\* a PUT that changed all three fields of record 1, its body carrying the
\* id of record 2, while record 2 is in the table
C6_Witness ==
  /\ Served(1)
  /\ req[1].route = "put"
  /\ req[1].body.id = Num(2)
  /\ resp[1].status = 200
  /\ IdOf(req[1]) = 1
  /\ DOMAIN store = {1, 2}
  /\ store[1].name # snap[1][1].name
  /\ store[1].price # snap[1][1].price
  /\ store[1].availability # snap[1][1].availability

(***************************************************************************)
(* C7: the errors of a rejected POST / hold one entry per failed rule of   *)
(* the four rules (name non-empty, price numeric, price non-empty,         *)
(* price > 0), in rule order.  An empty body gives 4 entries, a valid name *)
(* with price 0 gives 1, and a valid name with a price that is a non-empty *)
(* text which is not numeric gives 2; the boolean true, which is not       *)
(* numeric but compares greater than 0, gives 1.                           *)
(***************************************************************************)
NameBlank(b) == b.name \in {Undef, Str(<<>>)}
PriceBlank(b) == b.price \in {Undef, Str(<<>>)}
PriceNumeric(b) ==
  \/ b.price.t = "num"
  \/ b.price.t = "str" /\ \E k \in 0..9 : b.price.s = IntToStr(k)
PriceAboveZero(b) ==
  \/ b.price.t = "num" /\ b.price.n > 0
  \/ b.price.t = "str" /\ \E k \in 1..9 : b.price.s = IntToStr(k)
  \/ b.price = Bool(TRUE)
FailedPostRules(b) ==
  When(NameBlank(b), "name") \o When(~PriceNumeric(b), "price")
    \o When(PriceBlank(b), "price") \o When(~PriceAboveZero(b), "price")
Paths(es) == [i \in 1..Len(es) |-> es[i].path]
PostErrors(p) == IF resp[p].key = "errors" THEN resp[p].errors ELSE <<>>

FieldsMissing(b) == b.name = Undef /\ b.price = Undef /\ b.availability = Undef

C8_PutFieldsMissing ==
  \A p \in Procs :
    (pc[p] # "idle" /\ req[p].route = "put" /\ FieldsMissing(req[p].body)) =>
      /\ Served(p)
      /\ resp[p].status = 400
      /\ resp[p].key = "errors"
      /\ NoData(resp[p])
      /\ store = snap[p]
      /\ (IntegerId(req[p]) =>
            Paths(resp[p].errors) = <<"name", "price", "price", "price", "availability">>)
      /\ (~IntegerId(req[p]) =>
            Paths(resp[p].errors) =
              <<"id", "name", "price", "price", "price", "availability">>)

\* C8 as stated: exactly 5 entries for every id
C8_Original ==
  \A p \in Procs :
    (pc[p] # "idle" /\ req[p].route = "put" /\ FieldsMissing(req[p].body)) =>
      /\ Served(p)
      /\ resp[p].status = 400
      /\ Len(resp[p].errors) = 5
      /\ NoData(resp[p])
      /\ store = snap[p]

\* PUT /1 with an empty body, rejected with 5 entries while record 1 exists
C8_Witness ==
  /\ Served(1)
  /\ req[1].route = "put"
  /\ req[1].id = <<"1">>
  /\ req[1].body = EmptyBody
  /\ Len(resp[1].errors) = 5
  /\ 1 \in DOMAIN store

PutOn(p, k) ==
  /\ Served(p)
  /\ req[p].route = "put"
  /\ IdOf(req[p]) = k
  /\ ValidPutBody(req[p].body)
  /\ k \in DOMAIN snap[p]

C10_LastWriteWins ==
  \A p, q \in Procs : \A k \in 1..MaxId :
    (p # q /\ PutOn(p, k) /\ PutOn(q, k)) =>
      /\ resp[p].status = 200
      /\ resp[q].status = 200
      /\ k \in DOMAIN store
      /\ store[k] \in {RowOf(req[p].body), RowOf(req[q].body)}
      /\ (lastWrite.id = k /\ lastWrite.p \in {p, q} =>
            store[k] = RowOf(req[lastWrite.p].body))

\* both requests arrived while the record held the same row, each body
\* changes that row, the bodies differ in name and price, and the second
\* slot wrote last
C10_Witness ==
  /\ PutOn(1, 1) /\ PutOn(2, 1)
  /\ snap[1][1] = snap[2][1]
  /\ RowOf(req[1].body) # snap[1][1]
  /\ RowOf(req[2].body) # snap[2][1]
  /\ RowOf(req[1].body).name # RowOf(req[2].body).name
  /\ RowOf(req[1].body).price # RowOf(req[2].body).price
  /\ lastWrite = [p |-> 2, id |-> 1]
  /\ store[1] = RowOf(req[2].body)

(***************************************************************************)
(* C11: when a DELETE of an existing id runs together with a PATCH or PUT  *)
(* of the same id that read the record before it was removed, the later    *)
(* write of the stale instance does not bring the record back: once the    *)
(* DELETE has been answered 200 the id is in the table in no later state,  *)
(* and every GET of it that arrives afterwards is answered 404.            *)
(***************************************************************************)
C11_DeletedStaysDeleted ==
  /\ \A i \in deleted : i \notin DOMAIN store
  /\ \A p \in Procs :
       (Served(p) /\ req[p].route = "getById" /\ IntegerId(req[p])
          /\ IdOf(req[p]) \in deleted /\ IdOf(req[p]) \notin DOMAIN snap[p]) =>
         /\ resp[p].status = 404
         /\ resp[p].key = "error"

\* the DELETE of record 1 was answered 200 and a PATCH that arrived and read
\* the record while it existed has saved its toggled instance and was
\* answered 200 with it; the record is not in the table
C11_Witness ==
  \E p, q \in Procs :
    /\ p # q
    /\ Served(p) /\ req[p].route = "delete" /\ resp[p].status = 200
    /\ inst[p].data.id = 1
    /\ Served(q) /\ req[q].route = "patch" /\ resp[q].status = 200
    /\ resp[q].product.id = 1
    /\ calls[q] = <<"findByPk", "save">>
    /\ resp[q].product.availability # inst[p].data.availability
    /\ 1 \in DOMAIN snap[q]
    /\ 1 \in deleted
    /\ 1 \notin DOMAIN store
    /\ lastWrite = [p |-> p, id |-> 1]

====
